---- MODULE Spec2Model ----
(***************************************************************************)
(* COSMOS-api (src/index.js): an express service over a SQLite database    *)
(* with three tables (conversations, messages, memory) and a remote        *)
(* completion API.                                                         *)
(*                                                                         *)
(* Modelling decisions:                                                    *)
(*  - a table is the sequence of its rows in rowid (insertion) order;      *)
(*  - better-sqlite3 is synchronous, so a handler runs atomically up to    *)
(*    its first await and again from the resolution of that await to its   *)
(*    end; POST /chat and updateConversationMemory each have one await     *)
(*    (the completion call);                                               *)
(*  - CURRENT_TIMESTAMP is the variable clock, which has a resolution of   *)
(*    one second and so need not advance between two statements;           *)
(*  - ORDER BY on equal timestamps keeps rowid order (SQLite's sorter);    *)
(*  - generateId() returns a string never returned before; nextId counts   *)
(*    the ids that were stored;                                            *)
(*  - the completion API answers with a thrown error, a body without       *)
(*    choices, a choice whose content is null, or a text; it may also      *)
(*    never answer;                                                        *)
(*  - logged is the kind of the error a catch block hands to console.error.*)
(***************************************************************************)
EXTENDS Integers, Sequences, FiniteSets, TLC

\* ----- bounds of the model
MaxRequests == 3       \* requests served by a process started on an empty database
MaxClock == 1          \* seconds that pass
MaxPriorTurns == 5     \* turns already stored when a process starts on a used database
MaxLaterRequests == 1  \* requests served by a process started on a used database

\* ----- program constant: messages.slice(-10)
Window == 10

\* ----- JavaScript values that are not texts
Undefined == "<undefined>"
Null == "<null>"

\* an id that generateId never returns
UnknownId == "nope"

Titles == {Undefined, "T"}
Texts == {Undefined, "", "Ola"}
Replies == {"Oi!"}
Summaries == {"s1", "s2"}

VARIABLES
  conversations,  \* table conversations: rows [id, title, created_at, updated_at]
  messages,       \* table messages: rows [id, conversation_id, role, content, created_at]
  memory,         \* table memory: rows [id, conversation_id, summary, created_at]
  clock,          \* CURRENT_TIMESTAMP, in seconds
  nextId,         \* number of ids generateId has returned
  chats,          \* the POST /chat requests, in arrival order
  runs,           \* the updateConversationMemory invocations, in call order
                  \*   (by: the chat that made the call, 0 for another caller)
  lastResponse,   \* the latest request and what its handler answered before returning
  budget,         \* requests the process will still serve
  deletedIds,     \* history: ids whose DELETE answered 200
  upsertLog       \* history: the runs whose upsert succeeded, in completion order

vars == <<conversations, messages, memory, clock, nextId, chats, runs,
          lastResponse, budget, deletedIds, upsertLog>>

\* ----- JavaScript helpers
Falsy(v) == v \in {Undefined, Null, ""}

Max(a, b) == IF a >= b THEN a ELSE b
Min(a, b) == IF a <= b THEN a ELSE b

\* Array.prototype.slice(-k)
SliceFirst(s, k) == SubSeq(s, 1, Min(Len(s), k))
SliceLast(s, k) == SubSeq(s, Max(Len(s) - k, 0) + 1, Len(s))

generateId(n) == "id" \o ToString(n)

\* ----- SQL helpers
\* ORDER BY created_at ASC: a stable sort, rows of equal key stay in rowid order
OrderByCreatedAtAsc(rows) ==
  LET RECURSIVE Asc(_)
      Asc(rs) == IF rs = <<>> THEN <<>>
                 ELSE LET m == CHOOSE t \in {rs[i].created_at : i \in DOMAIN rs} :
                                 \A i \in DOMAIN rs : t <= rs[i].created_at
                          Top(r) == r.created_at = m
                          Rest(r) == r.created_at # m
                      IN SelectSeq(rs, Top) \o Asc(SelectSeq(rs, Rest))
  IN Asc(rows)

\* ORDER BY updated_at DESC: likewise stable
OrderByUpdatedAtDesc(rows) ==
  LET RECURSIVE Desc(_)
      Desc(rs) == IF rs = <<>> THEN <<>>
                  ELSE LET m == CHOOSE t \in {rs[i].updated_at : i \in DOMAIN rs} :
                                  \A i \in DOMAIN rs : rs[i].updated_at <= t
                           Top(r) == r.updated_at = m
                           Rest(r) == r.updated_at # m
                       IN SelectSeq(rs, Top) \o Desc(SelectSeq(rs, Rest))
  IN Desc(rows)

\* SELECT * FROM conversations WHERE id = ?
SelectConversation(id) ==
  LET Hit(r) == r.id = id IN SelectSeq(conversations, Hit)

\* SELECT ... FROM messages WHERE conversation_id = ? ORDER BY created_at ASC
SelectMessages(cid) ==
  LET Hit(r) == r.conversation_id = cid
  IN OrderByCreatedAtAsc(SelectSeq(messages, Hit))

\* the columns role, content of the conversation's messages
SelectHistory(cid) ==
  LET rows == SelectMessages(cid)
  IN [i \in 1..Len(rows) |-> [role |-> rows[i].role, content |-> rows[i].content]]

\* FOREIGN KEY (conversation_id) REFERENCES conversations(id), foreign_keys = ON
ForeignKeyOff(cid) == TRUE
ForeignKeyOk(cid) == \E i \in DOMAIN conversations : conversations[i].id = cid

\* NOT NULL column, and better-sqlite3's refusal to bind undefined
BindableNotNull(v) == v \notin {Null, Undefined}

getConversationMemory(conversationId) ==
  LET Hit(r) == r.conversation_id = conversationId
      result == SelectSeq(memory, Hit)
  IN IF result # <<>> THEN result[1].summary ELSE Null

\* INSERT INTO memory ... ON CONFLICT(conversation_id) DO UPDATE SET summary
UpsertAlwaysInserts(id, cid, summary) ==
  Append(memory, [id |-> id, conversation_id |-> cid, summary |-> summary,
                  created_at |-> clock])
UpsertKeepsFirst(id, cid, summary) ==
  IF \E i \in DOMAIN memory : memory[i].conversation_id = cid
  THEN memory
  ELSE Append(memory, [id |-> id, conversation_id |-> cid, summary |-> summary,
                       created_at |-> clock])
UpsertMemory(id, cid, summary) ==
  IF \E i \in DOMAIN memory : memory[i].conversation_id = cid
  THEN [i \in DOMAIN memory |->
          IF memory[i].conversation_id = cid
          THEN [memory[i] EXCEPT !.summary = summary]
          ELSE memory[i]]
  ELSE Append(memory, [id |-> id, conversation_id |-> cid, summary |-> summary,
                       created_at |-> clock])

\* ON DELETE CASCADE
CascadeKeepsRows(rows, id) == rows
CascadeDelete(rows, id) ==
  LET Keep(r) == r.conversation_id # id IN SelectSeq(rows, Keep)

\* UPDATE conversations SET updated_at = CURRENT_TIMESTAMP WHERE id = ?
TouchConversation(id) ==
  [i \in DOMAIN conversations |->
     IF conversations[i].id = id
     THEN [conversations[i] EXCEPT !.updated_at = clock]
     ELSE conversations[i]]

NoRow == [id |-> Undefined, title |-> Undefined, created_at |-> 0, updated_at |-> 0]

NoResponse == [op |-> "none", id |-> Undefined, status |-> 0, body |-> <<>>]

\* stmt.get(): the first row, or undefined
StmtGet(rows) == IF rows = <<>> THEN NoRow ELSE rows[1]

\* ----- the completion API's possible answers
ApiResults(texts) ==
  {[kind |-> "throw", content |-> Null], [kind |-> "nochoices", content |-> Null]}
  \cup {[kind |-> "content", content |-> c] : c \in texts \cup {Null}}

\* ids a client may send: those of conversations that exist or existed, and others
KnownIds == {conversations[i].id : i \in DOMAIN conversations} \cup deletedIds
PathIds == KnownIds \cup {UnknownId}
BodyIds == PathIds \cup {Undefined, ""}

\* ----- prompts
RECURSIVE JoinLines(_)
JoinLines(lines) ==
  IF lines = <<>> THEN ""
  ELSE IF Len(lines) = 1 THEN lines[1]
  ELSE lines[1] \o "\n" \o JoinLines(Tail(lines))

RenderMessage(m) == m.role \o ": " \o m.content

SummaryPrompt(recentMessages) ==
  "Resuma esta conversa:\n"
    \o JoinLines([i \in 1..Len(recentMessages) |-> RenderMessage(recentMessages[i])])

SystemPrompt(mem) ==
  "Voce e um assistente. " \o (IF ~Falsy(mem) THEN "Contexto: " \o mem ELSE "")

\* ----- updateConversationMemory, up to its await
updateConversationMemoryCall(by, conversationId, msgs) ==
  IF Len(msgs) = 0
  THEN [by |-> by, conversationId |-> conversationId, messages |-> msgs,
        recentMessages |-> <<>>, prompt |-> Undefined, called |-> FALSE,
        pc |-> "returned", result |-> "none", logged |-> "none"]
  ELSE LET recentMessages == SliceLast(msgs, Window)
       IN [by |-> by, conversationId |-> conversationId, messages |-> msgs,
           recentMessages |-> recentMessages,
           prompt |-> SummaryPrompt(recentMessages), called |-> TRUE,
           pc |-> "awaiting", result |-> "none", logged |-> "none"]

\* the statement of lines 99-104, when it succeeds
RunUpsertTouching(cid, summary) ==
  /\ memory' = UpsertMemory(generateId(nextId + 1), cid, summary)
  /\ nextId' = IF Len(memory') > Len(memory) THEN nextId + 1 ELSE nextId
  /\ conversations' = TouchConversation(cid)
  /\ UNCHANGED messages
RunUpsert(cid, summary) ==
  /\ memory' = UpsertMemory(generateId(nextId + 1), cid, summary)
  /\ nextId' = IF Len(memory') > Len(memory) THEN nextId + 1 ELSE nextId
  /\ UNCHANGED <<conversations, messages>>

\* ----- updateConversationMemory, from the completion's answer to its end
SummarizerResolve(s, res) ==
  /\ s \in DOMAIN runs
  /\ runs[s].pc = "awaiting"
  /\ LET cid == runs[s].conversationId
         summary == res.content
     IN IF res.kind # "content"
        THEN \* line 81 rejects, or line 96 reads choices[0] of nothing: caught
             /\ runs' = [runs EXCEPT ![s].pc = "done", ![s].result = "failed",
                     ![s].logged = IF res.kind = "throw" THEN "APIError" ELSE "TypeError"]
             /\ UNCHANGED <<conversations, messages, memory, nextId, upsertLog>>
        ELSE IF ~BindableNotNull(summary) \/ ~ForeignKeyOk(cid)
        THEN \* line 104 throws a constraint error: caught
             /\ runs' = [runs EXCEPT ![s].pc = "done", ![s].result = "failed",
                     ![s].logged = IF ~BindableNotNull(summary)
                                   THEN "SQLITE_CONSTRAINT_NOTNULL"
                                   ELSE "SQLITE_CONSTRAINT_FOREIGNKEY"]
             /\ UNCHANGED <<conversations, messages, memory, nextId, upsertLog>>
        ELSE /\ RunUpsert(cid, summary)
             /\ runs' = [runs EXCEPT ![s].pc = "done", ![s].result = "ok"]
             /\ upsertLog' = Append(upsertLog, [run |-> s, summary |-> summary])
  /\ UNCHANGED <<clock, chats, lastResponse, budget, deletedIds>>

\* ----- updateConversationMemory called by another caller than POST /chat
DirectSummarize(conversationId, msgs) ==
  /\ budget > 0
  /\ budget' = budget - 1
  /\ runs' = Append(runs, updateConversationMemoryCall(0, conversationId, msgs))
  /\ lastResponse' = NoResponse
  /\ UNCHANGED <<conversations, messages, memory, clock, nextId, chats,
                 deletedIds, upsertLog>>

\* ----- POST /chat, up to its await
RequestInvalidIdOnly(conversation_id, message) == Falsy(conversation_id)
RequestInvalid(conversation_id, message) == Falsy(conversation_id) \/ Falsy(message)

NotFoundNever(conversation) == FALSE
NotFound(conversation) == conversation = NoRow

ChatRequest(conversation_id, message) ==
  [op |-> "chat", id |-> conversation_id, message |-> message,
   status |-> 0, body |-> [error |-> "none"], stmts |-> 0, called |-> FALSE]

ChatStart(conversation_id, message) ==
  /\ budget > 0
  /\ budget' = budget - 1
  /\ LET req == ChatRequest(conversation_id, message)
         conversation == StmtGet(SelectConversation(conversation_id))
         history == SelectHistory(conversation_id)
         mem == getConversationMemory(conversation_id)
     IN IF RequestInvalid(conversation_id, message)
        THEN /\ lastResponse' =
                  [req EXCEPT !.status = 400,
                              !.body = [error |-> "conversation_id and message are required"]]
             /\ UNCHANGED chats
        ELSE IF NotFound(conversation)
        THEN /\ lastResponse' =
                  [req EXCEPT !.stmts = 1, !.status = 404,
                              !.body = [error |-> "Conversation not found"]]
             /\ UNCHANGED chats
        ELSE /\ lastResponse' = [req EXCEPT !.stmts = 3, !.called = TRUE]
             /\ chats' = Append(chats,
                  [conversation_id |-> conversation_id, message |-> message,
                   conversation |-> conversation, history |-> history,
                   memory |-> mem,
                   apiMessages |->
                      <<[role |-> "system", content |-> SystemPrompt(mem)]>>
                        \o history
                        \o <<[role |-> "user", content |-> message]>>,
                   pc |-> "awaiting", status |-> 0, body |-> [error |-> "none"],
                   logged |-> "none"])
  /\ UNCHANGED <<conversations, messages, memory, clock, nextId, runs,
                 deletedIds, upsertLog>>

\* the two INSERTs of a turn, lines 158-166
InsertTurnSwapped(rows, userRow, assistantRow) ==
  Append(Append(rows, assistantRow), userRow)
InsertTurn(rows, userRow, assistantRow) ==
  Append(Append(rows, userRow), assistantRow)

\* ----- POST /chat, from the completion's answer to its end
ChatResolve(r, res) ==
  /\ r \in DOMAIN chats
  /\ chats[r].pc = "awaiting"
  /\ LET c == chats[r]
         cid == c.conversation_id
         assistantMessage == res.content
         userMsgId == generateId(nextId + 1)
         assistantMsgId == generateId(nextId + 2)
         userRow == [id |-> userMsgId, conversation_id |-> cid, role |-> "user",
                     content |-> c.message, created_at |-> clock]
         assistantRow == [id |-> assistantMsgId, conversation_id |-> cid,
                          role |-> "assistant", content |-> assistantMessage,
                          created_at |-> clock]
         updatedHistory == c.history
                             \o <<[role |-> "user", content |-> c.message],
                                  [role |-> "assistant", content |-> assistantMessage]>>
         failed == [error |-> "Internal server error"]
     IN IF res.kind # "content"
        THEN \* line 149 rejects, or line 156 reads choices[0] of nothing
             /\ chats' = [chats EXCEPT ![r].pc = "done", ![r].status = 500,
                     ![r].body = failed,
                     ![r].logged = IF res.kind = "throw" THEN "APIError" ELSE "TypeError"]
             /\ UNCHANGED <<conversations, messages, nextId, runs>>
        ELSE IF ~ForeignKeyOk(cid)
        THEN \* line 161 throws: the conversation was deleted during the await
             /\ chats' = [chats EXCEPT ![r].pc = "done", ![r].status = 500,
                     ![r].body = failed, ![r].logged = "SQLITE_CONSTRAINT_FOREIGNKEY"]
             /\ UNCHANGED <<conversations, messages, nextId, runs>>
        ELSE IF ~BindableNotNull(assistantMessage)
        THEN \* line 161 has inserted the user row; line 166 throws
             /\ messages' = Append(messages, userRow)
             /\ chats' = [chats EXCEPT ![r].pc = "done", ![r].status = 500,
                     ![r].body = failed, ![r].logged = "SQLITE_CONSTRAINT_NOTNULL"]
             /\ nextId' = nextId + 1
             /\ UNCHANGED <<conversations, runs>>
        ELSE /\ messages' = InsertTurn(messages, userRow, assistantRow)
             /\ conversations' = TouchConversation(cid)
             /\ nextId' = nextId + 2
             /\ runs' = Append(runs, updateConversationMemoryCall(r, cid, updatedHistory))
             /\ chats' = [chats EXCEPT
                            ![r].pc = "done", ![r].status = 200,
                            ![r].body = [id |-> assistantMsgId, conversation_id |-> cid,
                                         role |-> "assistant",
                                         content |-> assistantMessage,
                                         created_at |-> clock]]
  /\ UNCHANGED <<memory, clock, lastResponse, budget, deletedIds, upsertLog>>

\* ----- GET /conversations
ListConversations ==
  /\ budget > 0
  /\ budget' = budget - 1
  /\ lastResponse' = [op |-> "list", id |-> Undefined, status |-> 200,
                      body |-> OrderByUpdatedAtDesc(conversations)]
  /\ UNCHANGED <<conversations, messages, memory, clock, nextId, chats, runs,
                 deletedIds, upsertLog>>

\* ----- GET /conversations/:id
GetConversation(id) ==
  /\ budget > 0
  /\ budget' = budget - 1
  /\ LET conversation == StmtGet(SelectConversation(id))
     IN lastResponse' =
          IF NotFound(conversation)
          THEN [op |-> "get", id |-> id, status |-> 404,
                body |-> [error |-> "Conversation not found"]]
          ELSE [op |-> "get", id |-> id, status |-> 200,
                body |-> [conversation |-> conversation,
                          messages |-> SelectMessages(id)]]
  /\ UNCHANGED <<conversations, messages, memory, clock, nextId, chats, runs,
                 deletedIds, upsertLog>>

\* ----- POST /conversations
CreateConversation(title) ==
  /\ budget > 0
  /\ budget' = budget - 1
  /\ LET conversationTitle == IF Falsy(title) THEN "Nova Conversa" ELSE title
         id == generateId(nextId + 1)
     IN /\ conversations' = Append(conversations,
               [id |-> id, title |-> conversationTitle,
                created_at |-> clock, updated_at |-> clock])
        /\ lastResponse' = [op |-> "create", id |-> id, status |-> 201,
               body |-> [id |-> id, title |-> conversationTitle,
                         created_at |-> clock, updated_at |-> clock]]
  /\ nextId' = nextId + 1
  /\ UNCHANGED <<messages, memory, clock, chats, runs, deletedIds, upsertLog>>

\* ----- DELETE /conversations/:id
DeleteConversation(id) ==
  /\ budget > 0
  /\ budget' = budget - 1
  /\ LET conversation == StmtGet(SelectConversation(id))
         Keep(r) == r.id # id
     IN IF NotFound(conversation)
        THEN /\ lastResponse' = [op |-> "delete", id |-> id, status |-> 404,
                                 body |-> [error |-> "Conversation not found"]]
             /\ UNCHANGED <<conversations, messages, memory, deletedIds>>
        ELSE /\ conversations' = SelectSeq(conversations, Keep)
             /\ messages' = CascadeDelete(messages, id)
             /\ memory' = CascadeDelete(memory, id)
             /\ deletedIds' = deletedIds \cup {id}
             /\ lastResponse' = [op |-> "delete", id |-> id, status |-> 200,
                                 body |-> [success |-> TRUE]]
  /\ UNCHANGED <<clock, nextId, chats, runs, upsertLog>>

\* ----- a second passes
Tick ==
  /\ clock < MaxClock
  /\ clock' = clock + 1
  /\ UNCHANGED <<conversations, messages, memory, nextId, chats, runs,
                 lastResponse, budget, deletedIds, upsertLog>>

\* ----- a process started on an empty database
Init ==
  /\ conversations = <<>>
  /\ messages = <<>>
  /\ memory = <<>>
  /\ clock = 0
  /\ nextId = 0
  /\ chats = <<>>
  /\ runs = <<>>
  /\ lastResponse = NoResponse
  /\ budget = MaxRequests
  /\ deletedIds = {}
  /\ upsertLog = <<>>

Next ==
  \/ \E title \in Titles : CreateConversation(title)
  \/ ListConversations
  \/ \E id \in PathIds : GetConversation(id)
  \/ \E id \in PathIds : DeleteConversation(id)
  \/ \E id \in BodyIds, text \in Texts : ChatStart(id, text)
  \/ \E r \in DOMAIN chats, res \in ApiResults(Replies) : ChatResolve(r, res)
  \/ \E s \in DOMAIN runs, res \in ApiResults(Summaries) : SummarizerResolve(s, res)
  \/ Tick

Spec == Init /\ [][Next]_vars

\* ----- a process started on a database that holds one conversation of n turns
PriorMessages(n) ==
  [i \in 1..(2 * n) |->
     [id |-> generateId(i + 1), conversation_id |-> generateId(1),
      role |-> IF i % 2 = 1 THEN "user" ELSE "assistant",
      content |-> (IF i % 2 = 1 THEN "u" ELSE "a") \o ToString((i + 1) \div 2),
      created_at |-> 0]]

InitUsed ==
  /\ \E n \in 0..MaxPriorTurns :
       /\ messages = PriorMessages(n)
       /\ nextId = 2 * n + 1
  /\ conversations = <<[id |-> generateId(1), title |-> "T",
                        created_at |-> 0, updated_at |-> 0]>>
  /\ memory = <<>>
  /\ clock = 0
  /\ chats = <<>>
  /\ runs = <<>>
  /\ lastResponse = NoResponse
  /\ budget = MaxLaterRequests
  /\ deletedIds = {}
  /\ upsertLog = <<>>

DirectInputs == {<<>>, <<[role |-> "user", content |-> "Ola"]>>}

NextUsed ==
  \/ Next
  \/ \E id \in PathIds, msgs \in DirectInputs : DirectSummarize(id, msgs)

SpecUsed == InitUsed /\ [][NextUsed]_vars

(***************************************************************************)
(* The claims                                                              *)
(***************************************************************************)
\* steps of the handlers
ChatResolves(r) ==
  r \in DOMAIN chats /\ chats[r].pc = "awaiting" /\ chats'[r].pc = "done"
RunResolves(s) ==
  s \in DOMAIN runs /\ runs[s].pc = "awaiting" /\ runs'[s].pc = "done"
RequestServed(op) == budget' = budget - 1 /\ lastResponse'.op = op

IsPrefix(a, b) == Len(a) <= Len(b) /\ SubSeq(b, 1, Len(a)) = a
UserEntry(c) == [role |-> "user", content |-> c.message]
AssistantEntry(c) == [role |-> "assistant", content |-> c.body.content]
RowsOf(rows, cid) == {i \in DOMAIN rows : rows[i].conversation_id = cid}
Exists(cid) == \E i \in DOMAIN conversations : conversations[i].id = cid
OtherRows(rows, cid) ==
  LET Other(r) == r.conversation_id # cid IN SelectSeq(rows, Other)
UpdatedAtIn(convs, cid) ==
  LET Hit(r) == r.id = cid IN SelectSeq(convs, Hit)[1].updated_at
\* the conversation's entries in the order GET /conversations/:id returns them
HistoryIn(rows, cid) ==
  LET Hit(r) == r.conversation_id = cid
      sorted == OrderByCreatedAtAsc(SelectSeq(rows, Hit))
  IN [i \in 1..Len(sorted) |-> [role |-> sorted[i].role, content |-> sorted[i].content]]

C2_AllOrNothing ==
  [][\A r \in DOMAIN chats :
       ChatResolves(r) =>
          IF chats'[r].status = 200
          THEN Len(messages') = Len(messages) + 2 /\ Len(runs') = Len(runs) + 1
          ELSE /\ chats'[r].status = 500
               /\ messages' = messages
               /\ conversations' = conversations
               /\ runs' = runs]_vars

\* C3: every message row and every memory row references a conversation that
\* exists.
C3_RowsReferenceConversations ==
  /\ \A i \in DOMAIN messages : Exists(messages[i].conversation_id)
  /\ \A i \in DOMAIN memory : Exists(memory[i].conversation_id)

\* C3 witness: a summarizer answered after its conversation was deleted and its
\* upsert was refused.
C3_Witness ==
  \E s \in DOMAIN runs :
     /\ runs[s].logged = "SQLITE_CONSTRAINT_FOREIGNKEY"
     /\ runs[s].conversationId \in deletedIds
     /\ runs[s].by # 0

\* C4: there is at most one memory row per conversation.
C4_OneMemoryRow ==
  \A i, j \in DOMAIN memory :
     memory[i].conversation_id = memory[j].conversation_id => i = j

\* C4 witness: two summarizer runs of one conversation have both upserted.
C4_Witness ==
  \E a, b \in DOMAIN upsertLog :
     /\ a < b
     /\ runs[upsertLog[a].run].conversationId = runs[upsertLog[b].run].conversationId
     /\ Cardinality(RowsOf(memory, runs[upsertLog[a].run].conversationId)) = 1

\* C5: once DELETE of a conversation answered 200, it is not listed, it has no
\* message row and no memory row, and every later GET, DELETE and POST /chat
\* (with a text, see C7) on its id answers 404; a DELETE of an id that does
\* not exist answers 404 and changes nothing.
C5_DeletedIsGone ==
  /\ [](\A id \in deletedIds :
          /\ ~Exists(id)
          /\ RowsOf(messages, id) = {} /\ RowsOf(memory, id) = {}
          /\ lastResponse.op = "list" =>
                \A i \in DOMAIN lastResponse.body : lastResponse.body[i].id # id)
  /\ [][/\ (budget' = budget - 1 /\ lastResponse'.op \in {"get", "delete"}
              /\ lastResponse'.id \in deletedIds)
            => lastResponse'.status = 404
        /\ (RequestServed("chat") /\ lastResponse'.id \in deletedIds
              /\ ~Falsy(lastResponse'.message))
            => lastResponse'.status = 404 /\ chats' = chats
        /\ (RequestServed("delete") /\ ~Exists(lastResponse'.id))
            => /\ lastResponse'.status = 404
               /\ UNCHANGED <<conversations, messages, memory, chats, runs>>
        /\ (RequestServed("delete") /\ Exists(lastResponse'.id))
            => /\ lastResponse'.status = 200
               /\ \A i \in DOMAIN conversations' :
                     conversations'[i].id # lastResponse'.id
               /\ RowsOf(messages', lastResponse'.id) = {}
               /\ RowsOf(memory', lastResponse'.id) = {}]_vars

\* C5 witness: a conversation that had a stored turn was deleted.
C5_Witness ==
  /\ lastResponse.op = "delete" /\ lastResponse.status = 200
  /\ \E r \in DOMAIN chats :
        chats[r].status = 200 /\ chats[r].conversation_id = lastResponse.id

\* C6: a POST /chat with a text and an id of no existing conversation answers
\* 404 after one SELECT and changes nothing: no row, no updated_at, no call of
\* the completion API, no summarizer.
C6_UnknownConversation ==
  [][(RequestServed("chat") /\ ~Falsy(lastResponse'.id)
        /\ ~Falsy(lastResponse'.message) /\ ~Exists(lastResponse'.id))
       => /\ lastResponse'.status = 404
          /\ ~lastResponse'.called
          /\ UNCHANGED <<conversations, messages, memory, chats, runs>>]_vars

\* C6 witness: such a request was answered.
C6_Witness ==
  /\ lastResponse.op = "chat" /\ lastResponse.status = 404
  /\ lastResponse.id \in deletedIds \cup {UnknownId}

\* C7: a POST /chat whose conversation_id or text is missing or empty answers
\* 400 without any statement on the database and without calling the completion
\* API, also when the id is of no existing conversation.
C7_Validation ==
  [][(RequestServed("chat")
        /\ (lastResponse'.id \in {Undefined, ""} \/ lastResponse'.message \in {Undefined, ""}))
       => /\ lastResponse'.status = 400
          /\ lastResponse'.stmts = 0
          /\ ~lastResponse'.called
          /\ UNCHANGED <<conversations, messages, memory, chats, runs>>]_vars

\* C7 witness: an empty text for an id of no conversation was answered 400.
C7_Witness ==
  /\ lastResponse.op = "chat" /\ lastResponse.status = 400
  /\ lastResponse.id = UnknownId /\ lastResponse.message = ""

\* C8: the chat that called a summarizer has answered 200 with the reply,
\* whatever becomes of the summarizer, and a summarizer's end changes nothing
\* but the memory row of its own conversation.
C8_FireAndForget ==
  /\ [](\A s \in DOMAIN runs :
          runs[s].by # 0 =>
             /\ chats[runs[s].by].pc = "done" /\ chats[runs[s].by].status = 200
             /\ chats[runs[s].by].body.role = "assistant"
             /\ chats[runs[s].by].body.content = runs[s].messages[Len(runs[s].messages)].content)
  /\ [][\A s \in DOMAIN runs :
          RunResolves(s) =>
             /\ UNCHANGED <<conversations, messages, chats>>
             /\ OtherRows(memory', runs[s].conversationId)
                  = OtherRows(memory, runs[s].conversationId)]_vars

\* C8 witness: a summarizer called by a chat has failed.
C8_Witness ==
  \E s \in DOMAIN runs :
     /\ runs[s].by # 0 /\ runs[s].result = "failed"
     /\ chats[runs[s].by].status = 200

\* C9: a summarizer called by a chat is given what the chat sent to the
\* completion API after the system prompt (the history it read and the user's
\* text) followed by the reply; a summarizer given n > 0 messages sends the
\* last min(10, n) of them in their order; one given no message calls neither
\* the completion API nor the database.
C9_SummarizerInput ==
  \A s \in DOMAIN runs :
     LET run == runs[s]
         n == Len(run.messages)
         k == IF n < 10 THEN n ELSE 10
     IN /\ run.by # 0 =>
             LET c == chats[run.by]
             IN /\ run.messages = Tail(c.apiMessages) \o <<AssistantEntry(c)>>
                /\ run.messages = c.history \o <<UserEntry(c), AssistantEntry(c)>>
        /\ n = 0 => /\ ~run.called /\ run.pc = "returned" /\ run.result = "none"
                    /\ \A e \in DOMAIN upsertLog : upsertLog[e].run # s
        /\ n > 0 => /\ run.called
                    /\ Len(run.recentMessages) = k
                    /\ \A i \in 1..k : run.recentMessages[i] = run.messages[n - k + i]
                    /\ run.prompt = SummaryPrompt(run.recentMessages)

\* C9 witness: a chat on a history of ten messages called the summarizer with
\* twelve.
C9_Witness ==
  \E s \in DOMAIN runs :
     runs[s].by # 0 /\ Len(runs[s].messages) = 12 /\ Len(runs[s].recentMessages) = 10

\* C10: the stored summary of a conversation is the one of the summarizer run
\* of that conversation whose upsert came last, whatever the order in which the
\* turns were stored.
C10_LastUpsertWins ==
  \A e \in DOMAIN upsertLog :
     LET cid == runs[upsertLog[e].run].conversationId
     IN (/\ Exists(cid)
         /\ \A f \in DOMAIN upsertLog :
               runs[upsertLog[f].run].conversationId = cid => f <= e)
        => /\ RowsOf(memory, cid) # {}
           /\ getConversationMemory(cid) = upsertLog[e].summary

\* C10 witness: both runs are over, the run of the turn stored first upserted
\* last, and the stored summary is its summary, made without the later turn.
C10_Witness ==
  \E s1, s2 \in DOMAIN runs :
     /\ s1 < s2
     /\ runs[s1].by # 0 /\ runs[s2].by # 0
     /\ runs[s1].conversationId = runs[s2].conversationId
     /\ \A s \in DOMAIN runs : runs[s].pc = "done"
     /\ Len(upsertLog) = 2
     /\ upsertLog[1].run = s2 /\ upsertLog[2].run = s1
     /\ upsertLog[1].summary # upsertLog[2].summary
     /\ getConversationMemory(runs[s1].conversationId) = upsertLog[2].summary
     /\ Len(runs[s1].messages) < Len(SelectHistory(runs[s1].conversationId))
====
